---- MODULE Spec2Model ----
(***************************************************************************)
(* calculate_greeks (src/assignment.py): Black-Scholes sensitivities of a  *)
(* European option, with the caller that invokes it.                       *)
(*                                                                         *)
(* Numbers.  Python floats are modelled by a decimal fixed-point format of *)
(* reduced width: a number is an integer count of units of 1/SCALE, every  *)
(* operation rounds its exact result to the nearest unit, and a result     *)
(* whose magnitude is below half a unit underflows to zero, as a result    *)
(* below 2.5e-324 does in an IEEE double.  MinFloat, one unit, stands for  *)
(* the smallest positive double.  The inputs are kept within magnitudes    *)
(* for which no operation exceeds the upper range of the format, so the    *)
(* overflow side of float arithmetic (inf, nan, OverflowError) is outside  *)
(* the model.                                                              *)
(*                                                                         *)
(* Strings are sequences of one-character strings.                         *)
(***************************************************************************)
EXTENDS Integers, Sequences, FiniteSets, TLC

----------------------------------------------------------------------------
(* The number format *)

SCALE == 10^4

MinFloat == 1

Abs(x) == IF x < 0 THEN -x ELSE x

Sgn(x) == IF x < 0 THEN -1 ELSE 1

\* float.__mul__ on magnitudes: round(a*b/SCALE), computed in parts so that
\* no intermediate exceeds the result by more than a factor SCALE
MulMag(a, b) ==
    LET qa == a \div SCALE
        ra == a % SCALE
        qb == b \div SCALE
        rb == b % SCALE
    IN  qa * qb * SCALE + qa * rb + ra * qb + (ra * rb + SCALE \div 2) \div SCALE

Mul(a, b) == Sgn(a) * Sgn(b) * MulMag(Abs(a), Abs(b))

\* float.__truediv__ on magnitudes, b > 0: round(a*SCALE/b) by long division,
\* two decimal digits at a time
DivMag(a, b) ==
    LET q0 == a \div b
        r0 == a % b
        q1 == (r0 * 100) \div b
        r1 == (r0 * 100) % b
        q2 == (r1 * 100) \div b
        r2 == (r1 * 100) % b
    IN  q0 * SCALE + q1 * 100 + q2 + (IF 2 * r2 >= b THEN 1 ELSE 0)

Div(a, b) == Sgn(a) * Sgn(b) * DivMag(Abs(a), Abs(b))

\* largest n in lo..hi with n*n <= v
RECURSIVE ISqrt(_, _, _)
ISqrt(v, lo, hi) ==
    IF lo >= hi THEN lo
    ELSE LET mid == (lo + hi + 1) \div 2
         IN  IF mid * mid <= v THEN ISqrt(v, mid, hi) ELSE ISqrt(v, lo, mid - 1)

\* math.sqrt for x >= 0, correctly rounded
Sqrt(x) ==
    LET v == x * SCALE
        y == ISqrt(v, 0, 46340)
    IN  IF v - y * y > y THEN y + 1 ELSE y

\* exp(-1) in units
EXP_M1 == 3679

\* sum of the Taylor series of exp(-f), 0 <= f < 1, from term n on
RECURSIVE ExpSeries(_, _, _)
ExpSeries(f, term, n) ==
    IF term = 0 THEN 0
    ELSE term + ExpSeries(f, -Div(Mul(term, f), n * SCALE), n + 1)

RECURSIVE ExpPow(_, _)
ExpPow(y, k) ==
    IF k = 0 \/ y = 0 THEN y ELSE ExpPow(Mul(y, EXP_M1), k - 1)

\* exp(-y) for y >= 0: exp(-k - f) = exp(-f) * exp(-1)^k
ExpNeg(y) == ExpPow(ExpSeries(y % SCALE, SCALE, 1), y \div SCALE)

\* math.exp, for x above zero as the reciprocal of exp(-x)
Exp(x) == IF x > 0 THEN Div(SCALE, ExpNeg(x)) ELSE ExpNeg(-x)

\* ln 2 in units
LN2 == 6931

\* sum of z^n/n + z^(n+2)/(n+2) + ..., pw = z^n
RECURSIVE AtanhSeries(_, _, _)
AtanhSeries(z2, pw, n) ==
    IF pw = 0 THEN 0
    ELSE Div(pw, n * SCALE) + AtanhSeries(z2, Mul(pw, z2), n + 2)

\* ln of m, SCALE <= m < 2*SCALE: 2 atanh((m-1)/(m+1))
LnMantissa(m) ==
    LET z == Div(m - SCALE, m + SCALE)
    IN  2 * AtanhSeries(Mul(z, z), z, 1)

\* math.log for x > 0: halve or double x into [1, 2), counting ln 2
RECURSIVE Ln(_)
Ln(x) ==
    IF x >= 2 * SCALE THEN LN2 + Ln(x \div 2)
    ELSE IF x < SCALE THEN Ln(2 * x) - LN2
    ELSE LnMantissa(x)

\* 1/sqrt(2 pi) in units
INV_SQRT_2PI == 3989

\* beyond this magnitude exp(-x^2/2) has underflowed to zero
PdfCutoff == 100 * SCALE

\* scipy.stats.norm.pdf: exp(-x^2/2) / sqrt(2 pi)
Pdf(x) ==
    IF Abs(x) >= PdfCutoff THEN 0
    ELSE Mul(INV_SQRT_2PI, Exp(-(Mul(x, x) \div 2)))

\* coefficients of the polynomial tail of the normal distribution
\* (Abramowitz and Stegun 26.2.17), in units
CDF_P == 2316
CDF_B == <<3194, -3566, 17815, -18213, 13303>>

\* CDF_B[i] t + CDF_B[i+1] t^2 + ... by Horner's rule
RECURSIVE CdfPoly(_, _)
CdfPoly(t, i) ==
    IF i > Len(CDF_B) THEN 0
    ELSE Mul(t, CDF_B[i] + CdfPoly(t, i + 1))

\* the upper tail 1 - Phi(x), x >= 1
CdfTail(x) ==
    LET t == Div(SCALE, SCALE + Mul(CDF_P, x))
        y == Mul(Pdf(x), CdfPoly(t, 1))
    IN  IF y < 0 THEN 0 ELSE y

\* x + x^3/3 + x^5/(3*5) + ..., from the term of degree n on
RECURSIVE CdfSeries(_, _, _)
CdfSeries(x2, term, n) ==
    IF term = 0 THEN 0
    ELSE term + CdfSeries(x2, Div(Mul(term, x2), (n + 2) * SCALE), n + 2)

\* Phi(x) - 1/2, 0 <= x < 1
CdfCentral(x) == Mul(Pdf(x), CdfSeries(Mul(x, x), x, 1))

\* scipy.stats.norm.cdf: an odd series about 1/2 for |x| < 1, the tail of |x|
\* beyond, complemented for x > 0
Cdf(x) ==
    IF Abs(x) < SCALE THEN SCALE \div 2 + Sgn(x) * CdfCentral(Abs(x))
    ELSE IF x > 0 THEN SCALE - CdfTail(x)
    ELSE CdfTail(-x)

----------------------------------------------------------------------------
(* Strings *)

UPPER == <<"A","B","C","D","E","F","G","H","I","J","K","L","M",
           "N","O","P","Q","R","S","T","U","V","W","X","Y","Z">>
LOWER == <<"a","b","c","d","e","f","g","h","i","j","k","l","m",
           "n","o","p","q","r","s","t","u","v","w","x","y","z">>

LowerChar(c) ==
    IF \E i \in DOMAIN UPPER : UPPER[i] = c
    THEN LOWER[CHOOSE i \in DOMAIN UPPER : UPPER[i] = c]
    ELSE c

\* str.lower
Lower(s) == [i \in DOMAIN s |-> LowerChar(s[i])]

CALL == <<"c", "a", "l", "l">>
PUT  == <<"p", "u", "t">>

----------------------------------------------------------------------------
(* Exceptions and results *)

ParamError == [type |-> "ValueError", msg |-> "All input values must be positive."]

\* line 34 raising with the message of line 21
OptionTypeErrorSameMessage == ParamError

OptionTypeError ==
    [type |-> "ValueError", msg |-> "Invalid option type. Please choose 'Call' or 'Put'."]

DomainError == [type |-> "ValueError", msg |-> "math domain error"]

ZeroDivError == [type |-> "ZeroDivisionError", msg |-> "float division by zero"]

NoResult == [kind |-> "none"]

Raised(e) == [kind |-> "raise", exc |-> e]

Returned(v) == [kind |-> "return", value |-> v]

----------------------------------------------------------------------------
(* The inputs the caller draws from *)

NumS == 2
NumK == 1
NumT == 2
NumSigma == 2
NumR == 1

SValues == {-SCALE, 0, MinFloat} \cup {(90 + 10 * i) * SCALE : i \in 1..NumS}

KValues == {0} \cup {(90 + 10 * i) * SCALE : i \in 1..NumK}

TValues == {0, MinFloat} \cup {(i * SCALE) \div 2 : i \in 1..NumT}

SigmaValues == {0, MinFloat} \cup {(i * SCALE) \div 5 : i \in 1..NumSigma}

RValues == {-(SCALE \div 100), 0} \cup {(i * SCALE) \div 20 : i \in 1..NumR}

OptionTypes ==
    { CALL, <<"C","a","l","l">>, <<"C","A","L","L">>,
      PUT, <<"P","u","t">>, <<"P","U","T">>,
      <<>>, <<"S","t","r","a","d","d","l","e">>, <<"C","A","L","L"," ">> }

----------------------------------------------------------------------------
(* calculate_greeks, one statement per step *)

VARIABLES
    pc,           \* the statement about to run, or the caller's position
    option_type, S, K, T, sigma, r,     \* the arguments
    d1, d2, delta, gamma, theta, vega,  \* the locals
    bound,        \* the locals assigned so far
    branch,       \* the arm taken at each dispatch on option_type
    line,         \* the source line of the raise or return that ended the call
    result,       \* what the call handed to its caller
    prev,         \* the previous call of the caller with the same numbers
    out           \* what the caller printed

args == <<option_type, S, K, T, sigma, r>>
locals == <<d1, d2, delta, gamma, theta, vega, bound, branch>>
vars == <<pc, args, locals, line, result, prev, out>>

\* line 20 with T < 0 in place of T <= 0
InvalidAdmitsZeroT(s, k, t, sg, rr) == s <= 0 \/ k <= 0 \/ t < 0 \/ sg <= 0 \/ rr < 0

\* line 20 without the test of r
InvalidIgnoresRate(s, k, t, sg, rr) == s <= 0 \/ k <= 0 \/ t <= 0 \/ sg <= 0

\* line 20
Invalid(s, k, t, sg, rr) == s <= 0 \/ k <= 0 \/ t <= 0 \/ sg <= 0 \/ rr < 0

\* math.exp(-r * T)
Discount == Exp(Mul(-r, T))

\* sigma * math.sqrt(T)
SigmaSqrtT == Mul(sigma, Sqrt(T))

Raise(e, ln) ==
    /\ pc' = "raised"
    /\ result' = Raised(e)
    /\ line' = ln

\* the caller invokes the function
Call ==
    /\ pc = "idle"
    /\ \E ot \in OptionTypes, s \in SValues, k \in KValues, t \in TValues,
          sg \in SigmaValues, rr \in RValues :
            /\ option_type' = ot
            /\ S' = s /\ K' = k /\ T' = t /\ sigma' = sg /\ r' = rr
    /\ pc' = "validate"
    /\ UNCHANGED <<locals, line, result, prev, out>>

\* lines 20-21
Validate ==
    /\ pc = "validate"
    /\ IF Invalid(S, K, T, sigma, r)
       THEN Raise(ParamError, 21)
       ELSE pc' = "d1" /\ UNCHANGED <<result, line>>
    /\ UNCHANGED <<args, locals, prev, out>>

\* line 24: math.log raises on a quotient that underflowed to zero, then the
\* division raises on a divisor that underflowed to zero
ComputeD1 ==
    /\ pc = "d1"
    /\ IF Div(S, K) = 0
       THEN Raise(DomainError, 24) /\ UNCHANGED <<d1, bound>>
       ELSE IF SigmaSqrtT = 0
       THEN Raise(ZeroDivError, 24) /\ UNCHANGED <<d1, bound>>
       ELSE /\ d1' = Div(Ln(Div(S, K))
                           + Mul(r + Mul(SCALE \div 2, Mul(sigma, sigma)), T),
                         SigmaSqrtT)
            /\ bound' = bound \cup {"d1"}
            /\ pc' = "d2"
            /\ UNCHANGED <<result, line>>
    /\ UNCHANGED <<args, d2, delta, gamma, theta, vega, branch, prev, out>>

\* line 25
ComputeD2 ==
    /\ pc = "d2"
    /\ d2' = d1 - SigmaSqrtT
    /\ bound' = bound \cup {"d2"}
    /\ pc' = "delta"
    /\ UNCHANGED <<args, d1, delta, gamma, theta, vega, branch, line, result, prev, out>>

\* lines 27-34 with the elif turned into a plain else
DeltaArmNoElse(ot) == IF Lower(ot) = CALL THEN "call" ELSE "put"

\* the arm of the if/elif/else of lines 27-34
DeltaArm(ot) ==
    IF Lower(ot) = CALL THEN "call"
    ELSE IF Lower(ot) = PUT THEN "put"
    ELSE "else"

\* line 29
DeltaCall == Mul(Discount, Cdf(d1))

\* line 32 with cdf(d1) in place of cdf(-d1)
DeltaPutSameTail == Mul(-Discount, Cdf(d1))

\* line 32
DeltaPut == Mul(-Discount, Cdf(-d1))

\* lines 27-34
ComputeDelta ==
    /\ pc = "delta"
    /\ branch' = [branch EXCEPT !.delta = DeltaArm(option_type)]
    /\ IF DeltaArm(option_type) = "else"
       THEN Raise(OptionTypeError, 34) /\ UNCHANGED <<delta, bound>>
       ELSE /\ delta' = IF DeltaArm(option_type) = "call" THEN DeltaCall ELSE DeltaPut
            /\ bound' = bound \cup {"delta"}
            /\ pc' = "gamma"
            /\ UNCHANGED <<result, line>>
    /\ UNCHANGED <<args, d1, d2, gamma, theta, vega, prev, out>>

\* line 37 given the sign of the Delta of the option type
GammaValueSigned ==
    Sgn(delta) * Div(Mul(Discount, Pdf(d1)), Mul(Mul(S, sigma), Sqrt(T)))

\* line 37; the divisor S * sigma * sqrt(T) is not zero for the inputs drawn,
\* whose S / K and sigma * sqrt(T) have not underflowed at line 24
GammaValue == Div(Mul(Discount, Pdf(d1)), Mul(Mul(S, sigma), Sqrt(T)))

ComputeGamma ==
    /\ pc = "gamma"
    /\ gamma' = GammaValue
    /\ bound' = bound \cup {"gamma"}
    /\ pc' = "theta"
    /\ UNCHANGED <<args, d1, d2, delta, theta, vega, branch, line, result, prev, out>>

\* line 42 comparing option_type without lower()
ThetaArmNoFold(ot) == IF ot = CALL THEN "call" ELSE "else"

\* the arm of the if/else of lines 42-45
ThetaArm(ot) == IF Lower(ot) = CALL THEN "call" ELSE "else"

\* lines 40-41
ThetaCommon ==
    Div(-Mul(Mul(Mul(S, Pdf(d1)), sigma), Discount), 2 * Sqrt(T))
        - Mul(Mul(Mul(r, K), Discount), Cdf(d2))

\* lines 40-45
ThetaValue(arm) ==
    IF arm = "call"
    THEN ThetaCommon + Mul(Mul(r, S), Cdf(d1))
    ELSE ThetaCommon + Mul(Mul(r, S), Cdf(-d1))

ComputeTheta ==
    /\ pc = "theta"
    /\ branch' = [branch EXCEPT !.theta = ThetaArm(option_type)]
    /\ theta' = ThetaValue(ThetaArm(option_type))
    /\ bound' = bound \cup {"theta"}
    /\ pc' = "vega"
    /\ UNCHANGED <<args, d1, d2, delta, gamma, vega, line, result, prev, out>>

\* line 48
VegaValue == Mul(Mul(S, Sqrt(T)), Pdf(d1))

ComputeVega ==
    /\ pc = "vega"
    /\ vega' = VegaValue
    /\ bound' = bound \cup {"vega"}
    /\ pc' = "return"
    /\ UNCHANGED <<args, d1, d2, delta, gamma, theta, branch, line, result, prev, out>>

\* line 50
Return ==
    /\ pc = "return"
    /\ result' = Returned([Delta |-> delta, Gamma |-> gamma,
                           Theta |-> theta, Vega |-> vega])
    /\ line' = 50
    /\ pc' = "returned"
    /\ UNCHANGED <<args, locals, prev, out>>

\* lines 55-58
PrintGreeks ==
    /\ pc = "returned"
    /\ out' = << <<"Delta:", result.value.Delta>>, <<"Gamma:", result.value.Gamma>>,
                 <<"Theta:", result.value.Theta>>, <<"Vega:", result.value.Vega>> >>
    /\ pc' = "done"
    /\ UNCHANGED <<args, locals, line, result, prev>>

\* lines 59-60: a ValueError is printed, any other exception leaves the
\* try statement and ends the program with its traceback
PrintError ==
    /\ pc = "raised"
    /\ out' = IF result.exc.type = "ValueError"
              THEN << <<result.exc.msg>> >>
              ELSE << <<"Traceback", result.exc.type, result.exc.msg>> >>
    /\ pc' = "done"
    /\ UNCHANGED <<args, locals, line, result, prev>>

NoLocals ==
    /\ d1 = 0 /\ d2 = 0 /\ delta = 0 /\ gamma = 0 /\ theta = 0 /\ vega = 0
    /\ bound = {}
    /\ branch = [delta |-> "none", theta |-> "none"]

\* the caller invokes the function again on the same numbers with another
\* option type, keeping the first outcome for comparison
Recall ==
    /\ pc = "done"
    /\ prev = NoResult
    /\ \E ot \in OptionTypes : option_type' = ot
    /\ prev' = [kind |-> "call", option_type |-> option_type, result |-> result]
    /\ d1' = 0 /\ d2' = 0 /\ delta' = 0 /\ gamma' = 0 /\ theta' = 0 /\ vega' = 0
    /\ bound' = {}
    /\ branch' = [delta |-> "none", theta |-> "none"]
    /\ result' = NoResult
    /\ line' = 0
    /\ out' = <<>>
    /\ pc' = "validate"
    /\ UNCHANGED <<S, K, T, sigma, r>>

Init ==
    /\ pc = "idle"
    /\ option_type = <<>>
    /\ S = 0 /\ K = 0 /\ T = 0 /\ sigma = 0 /\ r = 0
    /\ NoLocals
    /\ line = 0
    /\ result = NoResult
    /\ prev = NoResult
    /\ out = <<>>

Next ==
    \/ Call
    \/ Validate
    \/ ComputeD1
    \/ ComputeD2
    \/ ComputeDelta
    \/ ComputeGamma
    \/ ComputeTheta
    \/ ComputeVega
    \/ Return
    \/ PrintGreeks
    \/ PrintError
    \/ Recall

Spec == Init /\ [][Next]_vars

----------------------------------------------------------------------------
(* The claims *)

\* the constraints on the numeric parameters, as the specification words them
ValidParams == S > 0 /\ K > 0 /\ T > 0 /\ sigma > 0 /\ r >= 0

\* the option type is "call" or "put" up to letter case
Recognized == Lower(option_type) \in {CALL, PUT}

\* the call has ended
Finished == pc \in {"returned", "raised", "done"}

\* the caller has two calls on the same numbers to compare
Compared == Finished /\ prev # NoResult

\* the two calls compared are a Call and a Put that both returned
CallAndPut ==
    /\ Compared
    /\ {Lower(prev.option_type), Lower(option_type)} = {CALL, PUT}
    /\ prev.result.kind = "return"
    /\ result.kind = "return"

\* the value returned for the Call, and for the Put, of the two calls compared
CallValue == IF Lower(option_type) = CALL THEN result.value ELSE prev.result.value
PutValue == IF Lower(option_type) = PUT THEN result.value ELSE prev.result.value

\* the call of the demonstration, line 54
DemoCall ==
    /\ option_type = <<"C", "a", "l", "l">>
    /\ S = 100 * SCALE /\ K = 100 * SCALE /\ T = SCALE
    /\ sigma = SCALE \div 5 /\ r = SCALE \div 20

\* C1: a call with S <= 0, K <= 0, T <= 0, sigma <= 0 or r < 0, whatever its
\* option type, never reaches the statements that compute d1, d2 or a
\* sensitivity, binds none of them, and ends by raising the error of line 21.
C1_InvalidParameterBeforeComputation ==
    (pc # "idle" /\ ~ValidParams) =>
        /\ pc \in {"validate", "raised", "done"}
        /\ bound = {}
        /\ Finished => result = Raised(ParamError) /\ line = 21

C1_Witness ==
    /\ pc = "raised"
    /\ T = 0 /\ S > 0 /\ K > 0 /\ sigma > 0 /\ r >= 0
    /\ result = Raised(ParamError)

\* C2: every call with valid numeric parameters and an option type that is
\* neither "call" nor "put" after lower-casing ends by raising the error of
\* line 34 and returns nothing.
C2_UnrecognizedTypeRaises ==
    (Finished /\ ValidParams /\ ~Recognized) => result = Raised(OptionTypeError)

\* C3: a failure reaches the caller as the exception raised, and the exception
\* tells the failure of the numeric check (line 21) from the failure of the
\* option-type dispatch (line 34): each line raises its own error and no other
\* line raises it; the caller prints the error, never the Greeks.
C3_ErrorsDistinguished ==
    /\ pc = "raised" => result.kind = "raise"
    /\ (Finished /\ result.kind = "raise") =>
        /\ line = 21 <=> result.exc = ParamError
        /\ line = 34 <=> result.exc = OptionTypeError
        /\ pc = "done" => /\ Len(out) = 1
                          /\ out[1][Len(out[1])] = result.exc.msg

C3_Witness ==
    /\ pc = "done"
    /\ line = 34
    /\ out = << <<OptionTypeError.msg>> >>
    /\ result.exc # ParamError

\* C4: two calls on the same valid numbers whose option types differ only in
\* letter case have the same outcome, with identical Delta, Gamma, Theta and
\* Vega when they return.
C4_CaseInsensitive ==
    (Compared /\ ValidParams /\ Lower(prev.option_type) = Lower(option_type)) =>
        result = prev.result

C4_Witness ==
    /\ pc = "returned"
    /\ ValidParams
    /\ prev # NoResult
    /\ prev.option_type = <<"C", "A", "L", "L">>
    /\ option_type = CALL
    /\ result.kind = "return"
    /\ result.value.Theta # 0

\* C5: the Gamma and the Vega returned for Call equal the Gamma and the Vega
\* returned for Put on the same valid numbers.
C5_GammaVegaTypeIndependent ==
    (CallAndPut /\ ValidParams) =>
        /\ CallValue.Gamma = PutValue.Gamma
        /\ CallValue.Vega = PutValue.Vega

C5_Witness ==
    /\ CallAndPut
    /\ ValidParams
    /\ Lower(option_type) = PUT
    /\ result.value.Gamma > 0
    /\ result.value.Vega > 0

\* C6: on the same valid numbers the Delta returned for Call less the Delta
\* returned for Put is exp(-r*T), to within one unit of the number format.
C6_DeltaParity ==
    (CallAndPut /\ ValidParams) =>
        Abs(CallValue.Delta - PutValue.Delta - Discount) <= MinFloat

C6_Witness ==
    /\ CallAndPut
    /\ ValidParams
    /\ r > 0
    /\ CallValue.Delta > 0
    /\ PutValue.Delta < 0
    /\ Discount < SCALE

\* C7: the call of the demonstration returns Delta = 0.6368, Gamma = 0.0188,
\* Theta = -6.414 and Vega = 37.52, each to within 1e-2.
C7_DemoValues ==
    (pc = "returned" /\ DemoCall) =>
        /\ Abs(result.value.Delta - 6368) <= SCALE \div 100
        /\ Abs(result.value.Gamma - 188) <= SCALE \div 100
        /\ Abs(result.value.Theta + 64140) <= SCALE \div 100
        /\ Abs(result.value.Vega - 375200) <= SCALE \div 100

\* C8: every call with valid numeric parameters and option type call or put
\* returns a mapping with exactly the keys Delta, Gamma, Theta, Vega, with
\* Gamma >= 0 and Vega >= 0.
C8_ValidInputsReturn ==
    (Finished /\ ValidParams /\ Recognized) =>
        /\ result.kind = "return"
        /\ DOMAIN result.value = {"Delta", "Gamma", "Theta", "Vega"}
        /\ result.value.Gamma >= 0
        /\ result.value.Vega >= 0

\* C9: once Theta has been computed, its arm agrees with the arm Delta took:
\* the else arm of line 44 only with option type "put" after lower-casing and
\* after the put arm of Delta, the call arm only after the call arm of Delta.
C9_ThetaArmAgreesWithDelta ==
    /\ branch.theta = "else" => Lower(option_type) = PUT /\ branch.delta = "put"
    /\ branch.theta = "call" => Lower(option_type) = CALL /\ branch.delta = "call"

C9_Witness ==
    /\ branch.theta = "else"
    /\ option_type = <<"P", "U", "T">>
    /\ "theta" \in bound

\* C10: a call whose numbers are invalid and whose option type is unrecognized
\* ends with the error of line 21; the error of line 34 is raised only with
\* valid numbers, with d1 and d2 computed and no sensitivity computed yet.
C10_ValidationOrder ==
    /\ (Finished /\ ~ValidParams /\ ~Recognized) => result = Raised(ParamError)
    /\ (result.kind = "raise" /\ result.exc = OptionTypeError) =>
        /\ ValidParams
        /\ bound = {"d1", "d2"}

C10_Witness ==
    /\ pc = "raised"
    /\ ~ValidParams
    /\ ~Recognized
    /\ option_type # <<>>
    /\ result = Raised(ParamError)

====
